---- MODULE Spec2Model ----
(***************************************************************************)
(* Model of toolchain/aliases_map_maker.py: the generator that reads the   *)
(* NodeIds table and writes the alias header.  Texts whose characters      *)
(* matter (the output path, the guard, the namespace) are sequences of     *)
(* one-character strings; the fields of a row are opaque strings.          *)
(***************************************************************************)
EXTENDS Integers, Sequences, FiniteSets, TLC

\* ------------------------------------------------------------------ bounds
MaxRows == 2
MaxPathLen == 4
MaxRuns == 2

\* ------------------------------------------------------- string functions
Range(s) == {s[i] : i \in DOMAIN s}

Last(s) == s[Len(s)]

LowerLetters ==
  <<"a","b","c","d","e","f","g","h","i","j","k","l","m",
    "n","o","p","q","r","s","t","u","v","w","x","y","z">>

UpperLetters ==
  <<"A","B","C","D","E","F","G","H","I","J","K","L","M",
    "N","O","P","Q","R","S","T","U","V","W","X","Y","Z">>

\* str.upper(), character by character
upper(s) ==
  [i \in DOMAIN s |->
     IF \E k \in DOMAIN LowerLetters : LowerLetters[k] = s[i]
     THEN UpperLetters[CHOOSE k \in DOMAIN LowerLetters : LowerLetters[k] = s[i]]
     ELSE s[i]]

\* str.lower(), character by character
lower(s) ==
  [i \in DOMAIN s |->
     IF \E k \in DOMAIN UpperLetters : UpperLetters[k] = s[i]
     THEN LowerLetters[CHOOSE k \in DOMAIN UpperLetters : UpperLetters[k] = s[i]]
     ELSE s[i]]

\* str.replace(c, '')
remove(s, c) == SelectSeq(s, LAMBDA x : x # c)

\* str.split(sep) for a one-character separator: empty pieces are kept
RECURSIVE split(_, _)
split(s, sep) ==
  IF \A i \in DOMAIN s : s[i] # sep
  THEN <<s>>
  ELSE LET i == CHOOSE n \in DOMAIN s :
                  s[n] = sep /\ \A j \in 1..(n - 1) : s[j] # sep
       IN <<SubSeq(s, 1, i - 1)>> \o split(SubSeq(s, i + 1, Len(s)), sep)

\* sep.join(parts)
RECURSIVE join(_, _)
join(parts, sep) ==
  IF parts = <<>> THEN <<>>
  ELSE IF Len(parts) = 1 THEN parts[1]
  ELSE parts[1] \o <<sep>> \o join(Tail(parts), sep)

\* str(Path(p)) on a POSIX system: empty and '.' components are dropped,
\* a leading '/' (or exactly two of them) is kept, the empty path is '.'
PathStr(p) ==
  LET tail == SelectSeq(split(p, "/"), LAMBDA x : Len(x) > 0 /\ x # <<".">>)
      root == IF Len(p) >= 1 /\ p[1] = "/"
              THEN IF Len(p) >= 2 /\ p[2] = "/" /\ ~(Len(p) >= 3 /\ p[3] = "/")
                   THEN <<"/", "/">>
                   ELSE <<"/">>
              ELSE <<>>
      s == root \o join(tail, "/")
  IN IF s = <<>> THEN <<".">> ELSE s

\* output_filename with a fault: the final suffix alone is dropped
output_filename_rsplit(p) ==
  LET pieces == split(Last(split(PathStr(p), "/")), ".")
  IN IF Len(pieces) = 1 THEN pieces[1]
     ELSE join(SubSeq(pieces, 1, Len(pieces) - 1), ".")

\* output_filename = str(path).split('/')[-1:][0].split('.')[0]
output_filename(p) == split(Last(split(PathStr(p), "/")), ".")[1]

GuardPrefix ==
  <<"N","O","D","E","S","E","T","E","X","P","O","R","T","E","R","_",
    "C","O","M","M","O","N","_">>

GuardSuffix == <<"_", "H">>

NamespacePrefix ==
  <<"n","o","d","e","s","e","t","e","x","p","o","r","t","e","r",":",":">>

\* GuardName with a fault: the base name is not upper-cased
GuardNameAsIs(base) == GuardPrefix \o base \o GuardSuffix

\* 'NODESETEXPORTER_COMMON_' + output_filename.upper() + '_H'
GuardName(base) == GuardPrefix \o upper(base) \o GuardSuffix

\* NamespaceName with a fault: the underscores are kept
NamespaceNameKeep(base) == NamespacePrefix \o lower(base)

\* 'nodesetexporter::' + output_filename.replace('_', '').lower()
NamespaceName(base) == NamespacePrefix \o lower(remove(base, "_"))


\* ------------------------------------------------------------- the inputs
Aliases == {"A", "B"}

NodeIds == {"1"}

Categories == {"DataType", "ReferenceType", "Other"}

\* rows of the source table: well-formed rows, rows with missing fields
\* (an empty row is a blank line), rows with a fourth field
FullRows == {<<a, n, c>> : a \in Aliases, n \in NodeIds, c \in Categories}

ShortRows ==
  {<<>>} \cup {<<a>> : a \in Aliases} \cup {<<"A", x>> : x \in {"1", "DataType"}}

LongRows == {<<"A", "1", c, "x">> : c \in Categories}

Rows == FullRows \cup ShortRows \cup LongRows

SeqsUpTo(S, n) == UNION {[1..k -> S] : k \in 0..n}

PathChars == {"a", "B", "_", ".", "/"}

DatatypeAliases_h ==
  <<"D","a","t","a","t","y","p","e","A","l","i","a","s","e","s",".","h">>

Some_Output_h == <<"S","o","m","e","_","O","u","t","p","u","t",".","h">>

my_aliases_h == <<"m","y",".","a","l","i","a","s","e","s",".","h">>

gen_d_Some_Output_h == <<"g","e","n",".","d","/">> \o Some_Output_h

d_r_m_y_h == <<"d",".","r","/","m",".","y",".","h">>

\* the end-to-end table of the specification
ScenarioRows ==
  <<  <<"Boolean", "1", "DataType">>,
      <<"HasComponent", "47", "ReferenceType">>,
      <<"SomeFolder", "61", "Other">>  >>

\* what the destination may hold before a run
OldChunk == [k |-> "old", v |-> <<>>]

\* ---------------------------------------------------------------- records
\* DictRow with a fault: the field names are matched from the right
DictRowRight(row) ==
  LET n == Len(row)
  IN [Alias      |-> IF n >= 3 THEN <<row[n - 2]>> ELSE <<>>,
      NodeId     |-> IF n >= 2 THEN <<row[n - 1]>> ELSE <<>>,
      TypeOfData |-> IF n >= 1 THEN <<row[n]>> ELSE <<>>,
      rest       |-> <<>>]

\* csv.DictReader(fieldnames=['Alias','NodeId','TypeOfData']): a field is
\* <<text>> when the row has it and <<>> (None) when it is missing; fields
\* beyond the third are collected under the rest key
DictRow(row) ==
  [Alias      |-> IF Len(row) >= 1 THEN <<row[1]>> ELSE <<>>,
   NodeId     |-> IF Len(row) >= 2 THEN <<row[2]>> ELSE <<>>,
   TypeOfData |-> IF Len(row) >= 3 THEN <<row[3]>> ELSE <<>>,
   rest       |-> SubSeq(row, 4, Len(row))]

\* '%s' % field and print(field): a missing field is rendered as None
Str(f) == IF f = <<>> THEN "None" ELSE f[1]

InPreview(rec) == rec.TypeOfData \in {<<"DataType">>, <<"ReferenceType">>}

\* InDataType with a fault: the list of the preview is used
InDataTypeAny(rec) == rec.TypeOfData \in {<<"DataType">>, <<"ReferenceType">>}

InDataType(rec) == rec.TypeOfData \in {<<"DataType">>}

InReferenceType(rec) == rec.TypeOfData \in {<<"ReferenceType">>}

\* ----------------------------------------------------------- the chunks
\* every printh call writes one chunk; a chunk keeps the texts that vary
PreviewLine(rec) ==
  [k |-> "preview",
   v |-> << <<Str(rec.Alias)>>, <<Str(rec.NodeId)>>, <<Str(rec.TypeOfData)>> >>]

EntryLine(rec) ==
  [k |-> "entry",
   v |-> << <<Str(rec.NodeId)>>, <<Str(rec.Alias)>>, <<Str(rec.TypeOfData)>> >>]

\* banner, #ifndef, #define, includes, namespace, data_type_aliases{
HeaderChunk(base) ==
  [k |-> "header", v |-> <<GuardName(base), GuardName(base), NamespaceName(base)>>]

\* };  reference_type_aliases{
MiddleChunk == [k |-> "middle", v |-> <<>>]

\* };  } // namespace ...  #endif // ...
FooterChunk(base) ==
  [k |-> "footer", v |-> <<NamespaceName(base), GuardName(base)>>]

\* ------------------------------------------------------ the control flow
\* Program with a fault: the destination is opened first
ProgramDestFirst ==
  <<"open_dst", "open_src", "preview", "hdr", "seek1", "dt",
    "mid", "seek2", "rt", "footer", "close">>

\* Program with a fault: the header is written after the DataType scan
ProgramHeaderLate ==
  <<"open_src", "preview", "open_dst", "seek1", "dt", "hdr",
    "mid", "seek2", "rt", "footer", "close">>

\* the statements of the module body, in order
Program ==
  <<"open_src", "preview", "open_dst", "hdr", "seek1", "dt",
    "mid", "seek2", "rt", "footer", "close">>

After(p) ==
  LET i == CHOOSE n \in DOMAIN Program : Program[n] = p
  IN IF i = Len(Program) THEN "done" ELSE Program[i + 1]

\* Propagate with a fault: the error is swallowed and the run goes on
SkipStatement(p) == After(p)

\* no try/except anywhere: an exception ends the run
Propagate(p) == "failed"

\* OpenWT with a fault: append mode
OpenAppend(old) == old

\* open(path, "wt") truncates
OpenWT(old) == <<>>

\* SeekTo with a fault: the position is left where it was
SeekNot(p, offset) == p

\* nodeids_file.seek(offset)
SeekTo(p, offset) == offset

\* ---------------------------------------------------------------- state
VARIABLES
  path,         \* args.path_to_header
  rows,         \* the rows of the file at args.nodeids_path
  srcOK,        \* the source exists and can be opened
  pc,           \* the statement to execute next, or "done" / "failed"
  srcOpen,      \* nodeids_file is open
  pos,          \* the position of nodeids_file: rows consumed so far
  fhOpen,       \* fh is open
  buf,          \* chunks written to fh and not yet on the disk
  destExists,   \* the destination file exists
  dest,         \* the content of the destination file on the disk
  console,      \* the lines printed by the preview loop in this run
  seen,         \* the records the running for-loop has got so far
  scans,        \* the for-loops completed in this run, and what each got
  ioError,      \* an exception was raised in this run
  run,          \* the number of the run
  destExists0,  \* the destination existed when this run started
  dest0,        \* what the destination held when this run started
  prev          \* what the destination held when the previous run ended

vars ==
  <<path, rows, srcOK, pc, srcOpen, pos, fhOpen, buf, destExists, dest,
    console, seen, scans, ioError, run, destExists0, dest0, prev>>

input == <<path, rows, srcOK>>

RunPaths == {DatatypeAliases_h, gen_d_Some_Output_h}

NamingPaths ==
  SeqsUpTo(PathChars, MaxPathLen)
    \cup {DatatypeAliases_h, Some_Output_h, my_aliases_h, d_r_m_y_h}

Start ==
  /\ pc = Program[1]
  /\ srcOpen = FALSE
  /\ pos = 0
  /\ fhOpen = FALSE
  /\ buf = <<>>
  /\ console = <<>>
  /\ seen = <<>>
  /\ scans = <<>>
  /\ ioError = FALSE
  /\ run = 1
  /\ destExists \in BOOLEAN
  /\ dest = IF destExists THEN <<OldChunk>> ELSE <<>>
  /\ destExists0 = destExists
  /\ dest0 = dest
  /\ prev = <<>>

Init ==
  /\ path \in RunPaths
  /\ rows \in SeqsUpTo(Rows, MaxRows)
  /\ srcOK \in BOOLEAN
  /\ Start

InitNaming ==
  /\ path \in NamingPaths
  /\ rows = ScenarioRows
  /\ srcOK \in BOOLEAN
  /\ Start

\* -------------------------------------------------------------- the reader
\* DictReader.__next__ from position p: blank rows are skipped; the index of
\* the row returned, or 0 at the end of the file (StopIteration)
NextIndex(p) ==
  IF \E i \in (p + 1)..Len(rows) : rows[i] # <<>>
  THEN CHOOSE i \in (p + 1)..Len(rows) :
         rows[i] # <<>> /\ \A j \in (p + 1)..(i - 1) : rows[j] = <<>>
  ELSE 0

\* ------------------------------------------------------------ the actions
\* with open(full_nodids_file_path, newline='') as nodeids_file
OpenSource ==
  /\ pc = "open_src"
  /\ srcOK
  /\ srcOpen' = TRUE
  /\ pos' = 0
  /\ pc' = After(pc)
  /\ UNCHANGED <<input, fhOpen, buf, destExists, dest, console, seen, scans,
                 ioError, run, destExists0, dest0, prev>>

\* leaving the with blocks on an exception: fh is closed, which may or may
\* not get the buffered chunks to the disk, then nodeids_file is closed
Unwind ==
  /\ srcOpen' = FALSE
  /\ fhOpen' = FALSE
  /\ buf' = <<>>
  /\ dest' \in IF fhOpen THEN {dest, dest \o buf} ELSE {dest}

OpenSourceFail ==
  /\ pc = "open_src"
  /\ ~srcOK
  /\ pc' = Propagate(pc)
  /\ ioError' = TRUE
  /\ IF pc' = "failed" THEN Unwind ELSE UNCHANGED <<srcOpen, fhOpen, buf, dest>>
  /\ UNCHANGED <<input, pos, destExists, console, seen, scans, run,
                 destExists0, dest0, prev>>

\* for row in reader: if row['TypeOfData'] in [...]: print(...)
PreviewRow ==
  /\ pc = "preview"
  /\ srcOpen
  /\ NextIndex(pos) # 0
  /\ LET rec == DictRow(rows[NextIndex(pos)])
     IN /\ seen' = Append(seen, rec)
        /\ console' = IF InPreview(rec) THEN Append(console, PreviewLine(rec))
                      ELSE console
  /\ pos' = NextIndex(pos)
  /\ UNCHANGED <<input, pc, srcOpen, fhOpen, buf, destExists, dest, scans,
                 ioError, run, destExists0, dest0, prev>>

\* the end of a for-loop over the reader
EndScan(kind) ==
  /\ srcOpen
  /\ NextIndex(pos) = 0
  /\ pos' = Len(rows)
  /\ scans' = Append(scans, [kind |-> kind, saw |-> seen])
  /\ seen' = <<>>
  /\ pc' = After(pc)
  /\ UNCHANGED <<input, srcOpen, fhOpen, buf, destExists, dest, console,
                 ioError, run, destExists0, dest0, prev>>

PreviewEnd == pc = "preview" /\ EndScan("preview")

\* with open(full_header_output_file_path, "wt", encoding='utf8') as fh
OpenDest ==
  /\ pc = "open_dst"
  /\ fhOpen' = TRUE
  /\ destExists' = TRUE
  /\ dest' = OpenWT(dest)
  /\ buf' = <<>>
  /\ pc' = After(pc)
  /\ UNCHANGED <<input, srcOpen, pos, console, seen, scans, ioError, run,
                 destExists0, dest0, prev>>

\* printh(chunk)
Write(chunk) ==
  /\ fhOpen
  /\ buf' = Append(buf, chunk)
  /\ pc' = After(pc)
  /\ UNCHANGED <<input, srcOpen, pos, fhOpen, destExists, dest, console, seen,
                 scans, ioError, run, destExists0, dest0, prev>>

WriteHeader == pc = "hdr" /\ Write(HeaderChunk(output_filename(path)))

WriteMiddle == pc = "mid" /\ Write(MiddleChunk)

WriteFooter == pc = "footer" /\ Write(FooterChunk(output_filename(path)))

\* nodeids_file.seek(0)
Seek ==
  /\ pc \in {"seek1", "seek2"}
  /\ srcOpen
  /\ pos' = SeekTo(pos, 0)
  /\ pc' = After(pc)
  /\ UNCHANGED <<input, srcOpen, fhOpen, buf, destExists, dest, console, seen,
                 scans, ioError, run, destExists0, dest0, prev>>

\* for row in reader: if row['TypeOfData'] in [...]: printh(...)
TableRow(table) ==
  /\ srcOpen
  /\ fhOpen
  /\ NextIndex(pos) # 0
  /\ LET rec == DictRow(rows[NextIndex(pos)])
     IN /\ seen' = Append(seen, rec)
        /\ buf' = IF (table = "DataType" /\ InDataType(rec))
                      \/ (table = "ReferenceType" /\ InReferenceType(rec))
                   THEN Append(buf, EntryLine(rec))
                   ELSE buf
  /\ pos' = NextIndex(pos)
  /\ UNCHANGED <<input, pc, srcOpen, fhOpen, destExists, dest, console, scans,
                 ioError, run, destExists0, dest0, prev>>

DataTypeRow == pc = "dt" /\ TableRow("DataType")

DataTypeEnd == pc = "dt" /\ EndScan("DataType")

ReferenceTypeRow == pc = "rt" /\ TableRow("ReferenceType")

ReferenceTypeEnd == pc = "rt" /\ EndScan("ReferenceType")

\* the buffer of fh reaches the disk when it is full
Flush ==
  /\ fhOpen
  /\ buf # <<>>
  /\ dest' = dest \o buf
  /\ buf' = <<>>
  /\ UNCHANGED <<input, pc, srcOpen, pos, fhOpen, destExists, console, seen,
                 scans, ioError, run, destExists0, dest0, prev>>

\* the normal end of both with blocks: fh is flushed and closed, then
\* nodeids_file is closed
Close ==
  /\ pc = "close"
  /\ dest' = IF fhOpen THEN dest \o buf ELSE dest
  /\ buf' = <<>>
  /\ fhOpen' = FALSE
  /\ srcOpen' = FALSE
  /\ pc' = After(pc)
  /\ UNCHANGED <<input, pos, destExists, console, seen, scans, ioError, run,
                 destExists0, dest0, prev>>

\* an OSError (or a decoding or csv error) in any statement after the
\* source was opened
IOFail ==
  /\ pc \notin {"open_src", "done", "failed"}
  /\ pc' = Propagate(pc)
  /\ ioError' = TRUE
  /\ IF pc' = "failed" THEN Unwind ELSE UNCHANGED <<srcOpen, fhOpen, buf, dest>>
  /\ UNCHANGED <<input, pos, destExists, console, seen, scans, run,
                 destExists0, dest0, prev>>

\* the script is run again on the same arguments and the same source
Rerun ==
  /\ pc = "done"
  /\ run < MaxRuns
  /\ run' = run + 1
  /\ prev' = dest
  /\ dest0' = dest
  /\ destExists0' = destExists
  /\ pc' = Program[1]
  /\ pos' = 0
  /\ console' = <<>>
  /\ seen' = <<>>
  /\ scans' = <<>>
  /\ ioError' = FALSE
  /\ UNCHANGED <<input, srcOpen, fhOpen, buf, destExists, dest>>

Next ==
  \/ OpenSource
  \/ OpenSourceFail
  \/ PreviewRow
  \/ PreviewEnd
  \/ OpenDest
  \/ WriteHeader
  \/ Seek
  \/ DataTypeRow
  \/ DataTypeEnd
  \/ WriteMiddle
  \/ ReferenceTypeRow
  \/ ReferenceTypeEnd
  \/ WriteFooter
  \/ Flush
  \/ Close
  \/ IOFail
  \/ Rerun

Spec == Init /\ [][Next]_vars

SpecNaming == InitNaming /\ [][Next]_vars

TypeOK ==
  /\ pc \in Range(Program) \cup {"done", "failed"}
  /\ pos \in 0..Len(rows)
  /\ run \in 1..MaxRuns

\* ======================================================= the properties
\* The expected results are stated on the rows of the source themselves,
\* by index and by filtering, not through the reader and the chunks above.

Category(r) == IF Len(r) >= 3 THEN <<r[3]>> ELSE <<>>

EntryOf(r) == [k |-> "entry", v |-> << <<r[2]>>, <<r[1]>>, <<r[3]>> >>]

\* the entries of one table: the rows of category cat, in source order
TableOf(rs, cat) ==
  LET sel == SelectSeq(rs, LAMBDA r : Category(r) = <<cat>>)
  IN [i \in DOMAIN sel |-> EntryOf(sel[i])]

PreviewOf(rs) ==
  LET sel == SelectSeq(rs, LAMBDA r : Category(r) \in {<<"DataType">>, <<"ReferenceType">>})
  IN [i \in DOMAIN sel |-> [k |-> "preview", v |-> << <<sel[i][1]>>, <<sel[i][2]>>, <<sel[i][3]>> >>]]

\* the text written so far in this run: on the disk or still in the buffer
Written == dest \o buf

Kinds(w) == [i \in DOMAIN w |-> w[i].k]

Skeleton(w) == Kinds(SelectSeq(w, LAMBDA c : c.k # "entry"))

WellFormed(art) ==
  /\ Len(art) >= 3
  /\ art[1].k = "header"
  /\ art[Len(art)].k = "footer"
  /\ Skeleton(art) = <<"header", "middle", "footer">>

MiddleAt(art) == CHOOSE i \in DOMAIN art : art[i].k = "middle"

DataTypeTable(art) == SubSeq(art, 2, MiddleAt(art) - 1)

ReferenceTypeTable(art) == SubSeq(art, MiddleAt(art) + 1, Len(art) - 1)

\* the file name of a path text and its cuts, by index
LastSlash(s) ==
  IF \E i \in DOMAIN s : s[i] = "/"
  THEN CHOOSE i \in DOMAIN s : s[i] = "/" /\ \A j \in (i + 1)..Len(s) : s[j] # "/"
  ELSE 0

FileName(s) == SubSeq(s, LastSlash(s) + 1, Len(s))

FirstDot(n) ==
  IF \E i \in DOMAIN n : n[i] = "."
  THEN CHOOSE i \in DOMAIN n : n[i] = "." /\ \A j \in 1..(i - 1) : n[j] # "."
  ELSE Len(n) + 1

LastDot(n) ==
  IF \E i \in DOMAIN n : n[i] = "."
  THEN CHOOSE i \in DOMAIN n : n[i] = "." /\ \A j \in (i + 1)..Len(n) : n[j] # "."
  ELSE 0

\* the file name up to its first dot
UpToFirstDot(n) == SubSeq(n, 1, FirstDot(n) - 1)

\* the file name without its final suffix, as pathlib's stem
Stem(n) == IF 1 < LastDot(n) /\ LastDot(n) < Len(n) THEN SubSeq(n, 1, LastDot(n) - 1) ELSE n

Completed == pc = "done"

\* the three places of the guard token and the two of the namespace name
GuardTokens(art) == {art[1].v[1], art[1].v[2], art[Len(art)].v[2]}

NamespaceNames(art) == {art[1].v[3], art[Len(art)].v[1]}

ExpectedArtifact(rs, guard, ns) ==
  <<[k |-> "header", v |-> <<guard, guard, ns>>]>>
  \o TableOf(rs, "DataType")
  \o <<[k |-> "middle", v |-> <<>>]>>
  \o TableOf(rs, "ReferenceType")
  \o <<[k |-> "footer", v |-> <<ns, guard>>]>>

Guard == GuardName(output_filename(path))

Namespace == NamespaceName(output_filename(path))

NonBlank(rs) == SelectSeq(rs, LAMBDA r : Len(r) > 0)

\* ---------------------------------------------------------------------- C1
\* C1: when a run has completed, the entries of data_type_aliases are
\* exactly the rows of category DataType and the entries of
\* reference_type_aliases exactly the rows of category ReferenceType, in
\* source order, with their multiplicity, and no other row is in a table.
C1_Partition ==
  Completed =>
    /\ WellFormed(dest)
    /\ DataTypeTable(dest) = TableOf(rows, "DataType")
    /\ ReferenceTypeTable(dest) = TableOf(rows, "ReferenceType")

\* a completed run on a source that holds the same DataType row twice
C1_Witness ==
  /\ Completed
  /\ Len(rows) = 2
  /\ rows[1] = rows[2]
  /\ Category(rows[1]) = <<"DataType">>
  /\ Len(DataTypeTable(dest)) = 2
  /\ ReferenceTypeTable(dest) = <<>>

\* ---------------------------------------------------------------------- C2
\* C2 as stated: the guard token in the #ifndef line, the #define line and
\* the #endif comment is the prefix followed by the upper-cased base name.
C2_Original ==
  Completed =>
    GuardTokens(dest) = {GuardPrefix \o upper(output_filename(path))}

\* C2 as amended: the guard token in all three places is the prefix, the
\* upper-cased base name with its underscores, and the suffix _H.
C2_Guard ==
  Completed =>
    /\ GuardTokens(dest) = {GuardPrefix \o upper(output_filename(path)) \o <<"_", "H">>}
    /\ path = DatatypeAliases_h =>
         dest[1].v[1] = GuardPrefix
            \o <<"D","A","T","A","T","Y","P","E","A","L","I","A","S","E","S">>
            \o <<"_", "H">>
    /\ path = Some_Output_h =>
         dest[1].v[1] = GuardPrefix
            \o <<"S","O","M","E","_","O","U","T","P","U","T">> \o <<"_", "H">>

\* a completed run whose base name has a lower-case letter and an underscore
C2_Witness ==
  /\ Completed
  /\ "_" \in Range(output_filename(path))
  /\ "a" \in Range(output_filename(path))
  /\ WellFormed(dest)

\* ---------------------------------------------------------------------- C3
\* C3 as stated: the base name in the guard is the file name of the output
\* path with only its final suffix removed.
C3_Original ==
  Completed =>
    dest[1].v[1] = GuardPrefix \o upper(Stem(FileName(PathStr(path)))) \o GuardSuffix

\* C3 as amended: the base name in the guard and in the namespace is the
\* file name of the output path (as pathlib writes the path) cut at its
\* first dot; dots in the directories do not matter.
C3_BaseName ==
  Completed =>
    LET base == UpToFirstDot(FileName(PathStr(path)))
    IN /\ dest[1].v[1] = GuardPrefix \o upper(base) \o GuardSuffix
       /\ dest[1].v[3] = NamespacePrefix \o lower(remove(base, "_"))
       /\ path = my_aliases_h => dest[1].v[1] = GuardPrefix \o <<"M", "Y">> \o GuardSuffix

\* a completed run on d.r/m.y.h: two dots in the file name, one in the directory
C3_Witness ==
  /\ Completed
  /\ LastSlash(PathStr(path)) > 0
  /\ "." \in Range(SubSeq(PathStr(path), 1, LastSlash(PathStr(path))))
  /\ FirstDot(FileName(PathStr(path))) = 2
  /\ LastDot(FileName(PathStr(path))) = 4
  /\ dest[1].v[1] = GuardPrefix \o <<"M">> \o GuardSuffix

\* ---------------------------------------------------------------------- C4
\* C4: the namespace name is the prefix nodesetexporter:: followed by the
\* base name lower-cased with every underscore removed, and the opening line
\* and the closing comment carry the same name.
C4_Namespace ==
  Completed =>
    /\ NamespaceNames(dest) =
         {NamespacePrefix \o lower(remove(output_filename(path), "_"))}
    /\ "_" \notin Range(dest[1].v[3])
    /\ Range(dest[1].v[3]) \cap Range(UpperLetters) = {}
    /\ path = Some_Output_h =>
         dest[1].v[3] = NamespacePrefix
            \o <<"s","o","m","e","o","u","t","p","u","t">>
    /\ path = DatatypeAliases_h =>
         dest[1].v[3] = NamespacePrefix
            \o <<"d","a","t","a","t","y","p","e","a","l","i","a","s","e","s">>

\* a completed run whose base name has an underscore and a capital
C4_Witness ==
  /\ Completed
  /\ "_" \in Range(output_filename(path))
  /\ "B" \in Range(output_filename(path))
  /\ Len(dest) >= 3

\* ---------------------------------------------------------------------- C5
\* C5: every scan, the two table scans after the preview included, gets
\* every record of the source from the first row on, the tables are those
\* of the complete source, and the preview prints one line for exactly the
\* records of category DataType or ReferenceType.
C5_PreviewFrame ==
  /\ \A i \in DOMAIN scans :
       scans[i].saw = [n \in DOMAIN NonBlank(rows) |-> DictRow(NonBlank(rows)[n])]
  /\ Len(scans) >= 1 => console = PreviewOf(rows)
  /\ pc \in {"dt", "rt"} /\ seen = <<>> => pos = 0
  /\ Completed =>
       /\ Len(scans) = 3
       /\ SelectSeq(dest, LAMBDA c : c.k = "entry")
            = TableOf(rows, "DataType") \o TableOf(rows, "ReferenceType")

\* a completed run in which the preview printed a line and skipped a row
C5_Witness ==
  /\ Completed
  /\ Len(rows) = 2
  /\ Len(console) = 1
  /\ Len(scans) = 3
  /\ Len(scans[2].saw) = 2
  /\ Len(SelectSeq(dest, LAMBDA c : c.k = "entry")) = 1

\* ---------------------------------------------------------------------- C6
\* C6: a completed run leaves exactly the artifact of its input, whatever
\* the destination held before, and a second run in succession leaves the
\* same artifact as the first.
C6_Idempotent ==
  Completed =>
    /\ dest = ExpectedArtifact(rows, Guard, Namespace)
    /\ \A i \in DOMAIN dest : dest[i].k # "old"
    /\ run > 1 => dest = prev

\* the second run has completed over the artifact of the first
C6_Witness ==
  /\ Completed
  /\ run = 2
  /\ dest0 = prev
  /\ Len(prev) > 3

\* ---------------------------------------------------------------------- C7
\* C7: a run that completes raised no error and left the full artifact of
\* the full input; an error ends the run at once, with both files closed,
\* and a failed run never goes on.
C7_NoPartialSuccess ==
  /\ [](/\ Completed => ~ioError /\ dest = ExpectedArtifact(rows, Guard, Namespace)
        /\ ioError <=> pc = "failed"
        /\ pc = "failed" => ~srcOpen /\ ~fhOpen)
  /\ [][pc = "failed" => pc' = "failed" /\ dest' = dest]_vars

\* a run that failed in the ReferenceType scan with part of the text on disk
C7_Witness ==
  /\ pc = "failed"
  /\ Len(scans) = 2
  /\ Len(rows) = 2
  /\ Category(rows[1]) = <<"DataType">>
  /\ Category(rows[2]) = <<"ReferenceType">>
  /\ Len(dest) >= 2
  /\ Len(dest) < Len(ExpectedArtifact(rows, Guard, Namespace))

\* ---------------------------------------------------------------------- C8
\* C8 as stated: a row with fewer than three fields ends up as malformed
\* text (a missing field written out) in the generated tables.
C8_Original ==
  Completed /\ (\E i \in DOMAIN rows : Len(rows[i]) \in {1, 2}) =>
    \E j \in DOMAIN dest : dest[j].k = "entry" /\ <<"None">> \in Range(dest[j].v)

\* C8 as amended: a row with fewer than three fields is read without an
\* error into a record whose missing trailing fields, the category always
\* among them, are absent; the record is left out of the preview and of
\* both tables, so it puts no text at all into the artifact.
C8_ShortRows ==
  LET full == SelectSeq(rows, LAMBDA r : Len(r) >= 3)
  IN /\ \A i \in DOMAIN scans : \A n \in DOMAIN scans[i].saw :
          LET r == NonBlank(rows)[n]
              rec == scans[i].saw[n]
          IN /\ Len(r) < 3 => rec.TypeOfData = <<>>
             /\ Len(r) < 2 => rec.NodeId = <<>>
             /\ rec.Alias = <<r[1]>>
     /\ Completed =>
          /\ ~ioError
          /\ dest = ExpectedArtifact(full, Guard, Namespace)
          /\ console = PreviewOf(full)
          /\ \A j \in DOMAIN dest : <<"None">> \notin Range(dest[j].v)

\* a completed run on a source with a row of one field and one of two
C8_Witness ==
  /\ Completed
  /\ Len(rows) = 2
  /\ Len(rows[1]) = 2
  /\ Len(rows[2]) = 1
  /\ rows[1][2] = "DataType"
  /\ Len(dest) = 3

\* ---------------------------------------------------------------------- C9
\* C9 as stated: nothing is written to the destination before all three
\* scans of the source have finished.
C9_Original ==
  fhOpen /\ Len(scans) < 3 => Written = <<>>

\* C9 as amended: the source is scanned three times from the start, in the
\* order preview, DataType, ReferenceType; the destination is opened after
\* the preview scan and the writes are interleaved with the other two
\* scans: the header chunk before the DataType scan, the DataType entries
\* during it, the middle chunk between the two, the ReferenceType entries
\* during the last scan and the footer after it.
C9_Interleaved ==
  /\ Len(scans) <= 3
  /\ \A i \in DOMAIN scans : scans[i].kind = <<"preview", "DataType", "ReferenceType">>[i]
  /\ \A i \in DOMAIN scans : Len(scans[i].saw) = Len(NonBlank(rows))
  /\ pc \in {"open_src", "preview"} => scans = <<>> /\ ~fhOpen
  /\ pc = "open_dst" => Len(scans) = 1 /\ ~fhOpen
  /\ pc = "hdr" => Len(scans) = 1 /\ Written = <<>>
  /\ pc \in {"seek1", "dt"} =>
       /\ Len(scans) = 1
       /\ Kinds(Written) = <<"header">> \o [i \in 1..(Len(Written) - 1) |-> "entry"]
  /\ pc = "mid" => Len(scans) = 2 /\ Skeleton(Written) = <<"header">>
  /\ pc \in {"seek2", "rt"} => Len(scans) = 2 /\ Skeleton(Written) = <<"header", "middle">>
  /\ pc = "footer" => Len(scans) = 3 /\ Skeleton(Written) = <<"header", "middle">>
  /\ pc = "close" => Len(scans) = 3 /\ Skeleton(Written) = <<"header", "middle", "footer">>
  /\ Completed => Len(scans) = 3

\* the ReferenceType scan is under way and text is already on the disk
C9_Witness ==
  /\ pc = "rt"
  /\ Len(seen) = 1
  /\ Len(rows) = 2
  /\ Category(rows[1]) = <<"DataType">>
  /\ Len(dest) >= 2
  /\ Len(scans) = 2

\* --------------------------------------------------------------------- C10
\* C10: up to the end of the preview scan the destination is neither
\* opened nor changed, and when the source cannot be opened the run fails
\* with the destination as it was: kept if it existed, not created if not.
C10_SourceFirst ==
  /\ pc \in {"open_src", "preview", "open_dst"} =>
       ~fhOpen /\ dest = dest0 /\ destExists = destExists0
  /\ fhOpen => srcOpen /\ Len(scans) >= 1
  /\ ~srcOK =>
       /\ ~fhOpen
       /\ ~Completed
       /\ dest = dest0
       /\ destExists = destExists0

\* the source could not be opened and the old destination is still there
C10_Witness ==
  /\ pc = "failed"
  /\ ~srcOK
  /\ destExists
  /\ dest = <<OldChunk>>

====
